---- MODULE Spec2Model ----
(***************************************************************************)
(* Product catalogue service: GET /api/products served from a CSV file or  *)
(* an SQLite database (app.py, data_sources/, models/product.py).          *)
(*                                                                         *)
(* Python values are modelled as tagged records, texts as sequences of     *)
(* one-character strings, floats as exact hundredths (or NaN), exceptions  *)
(* as records [type, msg] matched against except clauses by IsInstance.    *)
(***************************************************************************)
EXTENDS Integers, Sequences, FiniteSets, TLC

(***************************************************************************)
(* Bounds of the model.                                                    *)
(***************************************************************************)
MaxCsvRows == 2
MaxDbRows == 2
MaxCalls == 3

(***************************************************************************)
(* Texts (Python str).                                                     *)
(***************************************************************************)
Whitespace == {" ", "\t"}

Digits == {"0", "1", "2", "3", "4", "5", "6", "7", "8", "9"}

DigitVal(c) ==
    CASE c = "0" -> 0 [] c = "1" -> 1 [] c = "2" -> 2 [] c = "3" -> 3
      [] c = "4" -> 4 [] c = "5" -> 5 [] c = "6" -> 6 [] c = "7" -> 7
      [] c = "8" -> 8 [] c = "9" -> 9

\* str.lower() on one character (ASCII letters the inputs use).
LowerChar(c) ==
    CASE c = "A" -> "a" [] c = "B" -> "b" [] c = "C" -> "c" [] c = "D" -> "d"
      [] c = "E" -> "e" [] c = "L" -> "l" [] c = "M" -> "m" [] c = "N" -> "n"
      [] c = "S" -> "s" [] c = "T" -> "t" [] c = "V" -> "v" [] c = "X" -> "x"
      [] OTHER -> c

Lower(s) == [i \in 1..Len(s) |-> LowerChar(s[i])]

RECURSIVE LStrip(_)
LStrip(s) ==
    IF s # <<>> /\ Head(s) \in Whitespace THEN LStrip(Tail(s)) ELSE s

RECURSIVE RStrip(_)
RStrip(s) ==
    IF s # <<>> /\ s[Len(s)] \in Whitespace
    THEN RStrip(SubSeq(s, 1, Len(s) - 1))
    ELSE s

\* str.strip()
Strip(s) == RStrip(LStrip(s))

(***************************************************************************)
(* Python values: None, int, float, str.                                   *)
(***************************************************************************)
None == [ty |-> "NoneType"]

PyInt(n) == [ty |-> "int", v |-> n]

\* A float: c is the value in hundredths; nan marks float('nan').
PyFloat(c) == [ty |-> "float", nan |-> FALSE, c |-> c]

NaN == [ty |-> "float", nan |-> TRUE, c |-> 0]

PyStr(s) == [ty |-> "str", v |-> s]

(***************************************************************************)
(* Exceptions and results of calls.                                        *)
(***************************************************************************)
Ok(v) == [ok |-> TRUE, val |-> v]

Raise(type, msg) == [ok |-> FALSE, exc |-> [type |-> type, msg |-> msg]]

\* The classes an exception of each type is an instance of.
Bases(type) ==
    CASE type = "FileNotFoundError" -> {"FileNotFoundError", "OSError", "Exception"}
      [] type = "ValueError" -> {"ValueError", "Exception"}
      [] type = "KeyError" -> {"KeyError", "LookupError", "Exception"}
      [] type = "TypeError" -> {"TypeError", "Exception"}
      [] type = "AttributeError" -> {"AttributeError", "Exception"}
      [] type = "sqlite3.Error" -> {"sqlite3.Error", "Exception"}
      [] type = "csv.Error" -> {"csv.Error", "Exception"}
      [] type = "Exception" -> {"Exception"}

IsInstance(exc, classes) == Bases(exc.type) \cap classes # {}

\* str(e): KeyError shows the repr of its argument, the others the message.
\* A message is a sequence of strings: literal fragments and the characters
\* of the values formatted into it.
StrExc(exc) == IF exc.type = "KeyError" THEN <<"'">> \o exc.msg \o <<"'">> ELSE exc.msg

(***************************************************************************)
(* Conversions: int(), float(), str() and f-string formatting.             *)
(***************************************************************************)
DigitChar(d) == CHOOSE c \in Digits : DigitVal(c) = d

RECURSIVE NatText(_)
NatText(n) ==
    IF n < 10 THEN <<DigitChar(n)>> ELSE NatText(n \div 10) \o <<DigitChar(n % 10)>>

\* str(n) of an int
IntText(n) == IF n < 0 THEN <<"-">> \o NatText(-n) ELSE NatText(n)

\* str(x) of a float given in hundredths: 10.0, 1.5, -0.25, nan
Abs(n) == IF n < 0 THEN -n ELSE n

FracText(frac) ==
    IF frac % 10 = 0
    THEN <<DigitChar(frac \div 10)>>
    ELSE <<DigitChar(frac \div 10), DigitChar(frac % 10)>>

FloatText(x) ==
    IF x.nan THEN <<"n", "a", "n">>
    ELSE (IF x.c < 0 THEN <<"-">> ELSE <<>>)
             \o NatText(Abs(x.c) \div 100) \o <<".">> \o FracText(Abs(x.c) % 100)

AllDigits(s) == \A i \in 1..Len(s) : s[i] \in Digits

RECURSIVE DigitsVal(_)
DigitsVal(s) ==
    IF s = <<>> THEN 0 ELSE 10 * DigitsVal(SubSeq(s, 1, Len(s) - 1)) + DigitVal(s[Len(s)])

Unsigned(t) == IF t # <<>> /\ Head(t) \in {"+", "-"} THEN Tail(t) ELSE t

Negative(t) == t # <<>> /\ Head(t) = "-"

\* int(s) of a str: surrounding whitespace, an optional sign, decimal digits.
IntOfParts(s, negative, u) ==
    IF u # <<>> /\ AllDigits(u)
    THEN Ok(IF negative THEN -DigitsVal(u) ELSE DigitsVal(u))
    ELSE Raise("ValueError",
               <<"invalid literal for int() with base 10: '">> \o s \o <<"'">>)

IntOfStripped(s, t) == IntOfParts(s, Negative(t), Unsigned(t))

ParseInt(s) == IntOfStripped(s, Strip(s))

DotAt(u) == IF \E i \in 1..Len(u) : u[i] = "." 
            THEN CHOOSE i \in 1..Len(u) : u[i] = "." /\ \A j \in 1..(i - 1) : u[j] # "."
            ELSE Len(u) + 1

\* The first two fraction digits as hundredths (the drawn texts have no more).
FracVal(f) ==
    IF f = <<>> THEN 0
    ELSE IF Len(f) = 1 THEN 10 * DigitVal(f[1])
    ELSE 10 * DigitVal(f[1]) + DigitVal(f[2])

\* float(s) of a str: whitespace, sign, digits with an optional fraction, or
\* nan (exponents and inf are not among the texts the model draws).
FloatOfParts(s, negative, whole, frac) ==
    IF AllDigits(whole) /\ AllDigits(frac) /\ Len(whole) + Len(frac) > 0
    THEN Ok(PyFloat(IF negative
                    THEN -(100 * DigitsVal(whole) + FracVal(frac))
                    ELSE 100 * DigitsVal(whole) + FracVal(frac)))
    ELSE Raise("ValueError",
               <<"could not convert string to float: '">> \o s \o <<"'">>)

FloatOfDotted(s, negative, u, d) ==
    FloatOfParts(s, negative, SubSeq(u, 1, d - 1), SubSeq(u, d + 1, Len(u)))

FloatOfUnsigned(s, negative, u) ==
    IF Lower(u) = <<"n", "a", "n">> THEN Ok(NaN)
    ELSE FloatOfDotted(s, negative, u, DotAt(u))

FloatOfStripped(s, t) == FloatOfUnsigned(s, Negative(t), Unsigned(t))

ParseFloat(s) == FloatOfStripped(s, Strip(s))

\* int(x)
ToInt(x) ==
    CASE x.ty = "int" -> Ok(x.v)
      [] x.ty = "str" -> ParseInt(x.v)
      [] x.ty = "float" ->
            IF x.nan THEN Raise("ValueError", <<"cannot convert float NaN to integer">>)
            ELSE Ok(IF x.c < 0 THEN -((-x.c) \div 100) ELSE x.c \div 100)
      [] x.ty = "NoneType" ->
            Raise("TypeError", <<"int() argument must be a string, a bytes-like object or a real number, not 'NoneType'">>)

\* float(x)
ToFloat(x) ==
    CASE x.ty = "int" -> Ok(PyFloat(100 * x.v))
      [] x.ty = "str" -> ParseFloat(x.v)
      [] x.ty = "float" -> Ok(x)
      [] x.ty = "NoneType" ->
            Raise("TypeError", <<"float() argument must be a string or a real number, not 'NoneType'">>)

\* str(x)
ToStr(x) ==
    CASE x.ty = "str" -> x.v
      [] x.ty = "int" -> IntText(x.v)
      [] x.ty = "float" -> FloatText(x)
      [] x.ty = "NoneType" -> <<"N", "o", "n", "e">>

\* bool(x): the truth value `x or ''` and `if not x` test
Truthy(x) ==
    CASE x.ty = "str" -> x.v # <<>>
      [] x.ty = "int" -> x.v # 0
      [] x.ty = "float" -> x.nan \/ x.c # 0
      [] x.ty = "NoneType" -> FALSE

\* a < 0 on an int or float value (every comparison with nan is False)
LtZero(x) == IF x.ty = "float" THEN ~x.nan /\ x.c < 0 ELSE x.v < 0

(***************************************************************************)
(* models/product.py: Product.                                             *)
(***************************************************************************)
\* Product.__init__: the four invariants, then the normalising assignments.
\* The arguments are Python values; both callers pass str for description
\* and image_path.
ProductInit(id, name, description, price, stock, image_path) ==
    IF id.ty # "int" \/ id.v <= 0
    THEN Raise("ValueError",
               <<"Product ID moet een positief getal zijn, kreeg: ">> \o ToStr(id))
    ELSE IF name.ty # "str" \/ Strip(name.v) = <<>>
    THEN Raise("ValueError", <<"Product naam mag niet leeg zijn">>)
    ELSE IF price.ty \notin {"int", "float"} \/ LtZero(price)
    THEN Raise("ValueError",
               <<"Prijs mag niet negatief zijn, kreeg: ">> \o ToStr(price))
    ELSE IF stock.ty # "int" \/ stock.v < 0
    THEN Raise("ValueError",
               <<"Voorraad mag niet negatief zijn, kreeg: ">> \o ToStr(stock))
    ELSE Ok([id |-> id.v,
             name |-> Strip(name.v),
             description |-> IF Truthy(description) THEN Strip(description.v) ELSE <<>>,
             price |-> ToFloat(price).val,
             stock |-> stock.v,
             image_path |-> IF Truthy(image_path) THEN Strip(image_path.v) ELSE <<>>])

(***************************************************************************)
(* data_sources/csv_source.py: CSVSource.                                  *)
(*                                                                         *)
(* A CSV file is [header, lines]: header the column names of its first     *)
(* row (<<>> for an empty file), lines the data rows as the csv reader     *)
(* yields them, each [cells] or an oversize line on which the reader       *)
(* raises csv.Error.                                                       *)
(***************************************************************************)
RequiredFields == <<"id", "name", "description", "price", "stock", "image_path">>

ColumnAt(header, k) == CHOOSE i \in 1..Len(header) : header[i] = k

\* csv.DictReader: zip the header with the cells; a short row is padded with
\* restval None (cells beyond the header go under the key None, unused here).
DictRow(header, cells) ==
    [k \in {header[i] : i \in 1..Len(header)} |->
        IF ColumnAt(header, k) <= Len(cells)
        THEN PyStr(cells[ColumnAt(header, k)])
        ELSE None]

\* x.strip()
StripVal(x) ==
    IF x.ty = "str" THEN Ok(Strip(x.v))
    ELSE Raise("AttributeError", <<"'NoneType' object has no attribute 'strip'">>)

\* The result of statements run in order: the first exception, else Ok(<<values>>).
InOrder(steps) ==
    IF \E i \in 1..Len(steps) : ~steps[i].ok
    THEN steps[CHOOSE i \in 1..Len(steps) :
                   ~steps[i].ok /\ \A j \in 1..(i - 1) : steps[j].ok]
    ELSE Ok([i \in 1..Len(steps) |-> steps[i].val])

RECURSIVE JoinComma(_)
JoinComma(names) ==
    IF names = <<>> THEN <<>>
    ELSE IF Len(names) = 1 THEN <<names[1]>>
    ELSE <<names[1], ", ">> \o JoinComma(Tail(names))

\* "Valideer waardes" of _parse_product_row and the construction of the
\* Product, on the converted fields.
ValidateValues(product_id, name, description, price, stock, image_path, rij) ==
    IF product_id <= 0
    THEN Raise("ValueError", <<"Product ID moet positief zijn (rij ">> \o rij \o <<")">>)
    ELSE IF name = <<>>
    THEN Raise("ValueError", <<"Product naam mag niet leeg zijn (rij ">> \o rij \o <<")">>)
    ELSE IF LtZero(price)
    THEN Raise("ValueError", <<"Prijs mag niet negatief zijn (rij ">> \o rij \o <<")">>)
    ELSE IF stock < 0
    THEN Raise("ValueError", <<"Voorraad mag niet negatief zijn (rij ">> \o rij \o <<")">>)
    ELSE ProductInit(PyInt(product_id), PyStr(name), PyStr(description),
                     price, PyInt(stock), PyStr(image_path))

\* What follows the conversions: their first exception, or the validation.
AfterConversions(conv, rij) ==
    IF ~conv.ok THEN conv
    ELSE ValidateValues(conv.val[1], conv.val[2], conv.val[3], conv.val[4],
                        conv.val[5], conv.val[6], rij)

\* "Valideer vereiste velden" of _parse_product_row.
MissingFields(row) == SelectSeq(RequiredFields, LAMBDA f : f \notin DOMAIN row)

\* The body of the try block of _parse_product_row.
ParseProductRowBody(row, row_number) ==
    IF MissingFields(row) # <<>>
    THEN Raise("KeyError",
               <<"Ontbrekende kolommen in rij ">> \o IntText(row_number)
                   \o <<": ">> \o JoinComma(MissingFields(row)))
    ELSE AfterConversions(
             InOrder(<<ToInt(row.id), StripVal(row.name), StripVal(row.description),
                       ToFloat(row.price), ToInt(row.stock), StripVal(row.image_path)>>),
             IntText(row_number))

\* The except clause of _parse_product_row: ValueError and KeyError leave as
\* ValueError; anything else propagates unchanged.
ParseRowExcept(r, row_number) ==
    IF ~r.ok /\ IsInstance(r.exc, {"ValueError", "KeyError"})
    THEN Raise("ValueError", <<"Fout bij verwerken van rij ">> \o IntText(row_number)
                                 \o <<": ">> \o StrExc(r.exc))
    ELSE r

\* CSVSource._parse_product_row
ParseProductRow(row, row_number) ==
    ParseRowExcept(ParseProductRowBody(row, row_number), row_number)

\* The for loop of get_all_products: rows in file order, numbered from 2,
\* stopping at the first exception.
RECURSIVE CsvReadRows(_, _, _, _)
\* One iteration: r is what _parse_product_row gave for the row at hand.
CsvAppendRow(header, rest, row_number, products, r) ==
    IF r.ok
    THEN CsvReadRows(header, rest, row_number + 1, Append(products, r.val))
    ELSE r

CsvReadRows(header, lines, row_number, products) ==
    IF lines = <<>> THEN Ok(products)
    ELSE IF Head(lines).oversize
    THEN Raise("csv.Error", <<"field larger than field limit (131072)">>)
    ELSE CsvAppendRow(header, Tail(lines), row_number, products,
                      ParseProductRow(DictRow(header, Head(lines).cells), row_number))

\* `if not products: raise ValueError(...)` after the loop.
CsvCheckProducts(r) ==
    IF r.ok /\ r.val = <<>>
    THEN Raise("ValueError", <<"Geen geldige producten gevonden in CSV bestand">>)
    ELSE r

\* The body of the try block of CSVSource.get_all_products.
CsvGetAllBody(exists, file) ==
    IF ~exists
    THEN Raise("FileNotFoundError", <<"[Errno 2] No such file or directory">>)
    ELSE IF file.header = <<>>
    THEN Raise("ValueError", <<"CSV bestand heeft geen headers of is leeg">>)
    ELSE CsvCheckProducts(CsvReadRows(file.header, file.lines, 2, <<>>))

\* The except clauses of CSVSource.get_all_products, in order: the first
\* clause whose class the exception is an instance of handles it.
CsvGetAllExcept(r) ==
    IF r.ok THEN r
    ELSE IF IsInstance(r.exc, {"FileNotFoundError"})
    THEN Raise("FileNotFoundError", <<"CSV bestand niet gevonden: ", "data/products.csv">>)
    ELSE IF IsInstance(r.exc, {"csv.Error"})
    THEN Raise("ValueError", <<"Fout bij lezen van CSV bestand: ">> \o StrExc(r.exc))
    ELSE IF IsInstance(r.exc, {"Exception"})
    THEN Raise("Exception", <<"Onverwachte fout bij lezen van CSV: ">> \o StrExc(r.exc))
    ELSE r

\* CSVSource.get_all_products
CsvGetAllProducts(exists, file) == CsvGetAllExcept(CsvGetAllBody(exists, file))

\* CSVSource.__init__ with _validate_file_exists
CsvSourceInit(csv_path, exists) ==
    IF csv_path = ""
    THEN Raise("ValueError", <<"CSV pad mag niet leeg zijn">>)
    ELSE IF ~exists
    THEN Raise("FileNotFoundError", <<"CSV bestand niet gevonden: ", csv_path>>)
    ELSE Ok([kind |-> "csv", connection |-> 0])

\* CSVSource.close: nothing is held, nothing changes.
CsvClose(src) == src

(***************************************************************************)
(* data_sources/database_source.py: DatabaseSource.                        *)
(*                                                                         *)
(* A database file is [hasTable, rows]: whether it holds a table named     *)
(* products, and that table's rows in storage order.  The id column is the *)
(* table's INTEGER PRIMARY KEY (init_database.py), so ids are distinct     *)
(* integers; the other columns may hold NULL, which is what the per-row    *)
(* skip of get_all_products is written for.                                *)
(*                                                                         *)
(* The driver's connections are the sequence conns of [owner, open]; a     *)
(* source's connection attribute is an index into it, 0 for None.          *)
(***************************************************************************)
\* What a call on a source leaves behind: its result, the source's
\* connection attribute and the driver's connections.
Effect(res, connection, conns) == [res |-> res, connection |-> connection, conns |-> conns]

\* DatabaseSource._connect.  fault is where the driver raises sqlite3.Error:
\* "connect" in sqlite3.connect, "probe" in the sqlite_master query, "none".
\* "Test de verbinding" of _connect, on the connection just opened.
DbProbe(opened, db, fault) ==
    IF fault = "probe"
    THEN Effect(Raise("Exception",
                      <<"Database verbinding mislukt: ", "file is not a database">>),
                Len(opened), opened)
    ELSE IF ~db.hasTable
    THEN Effect(Raise("ValueError",
                      <<"Database bevat geen 'products' tabel. ",
                        "Voer 'python init_database.py' uit.">>),
                Len(opened), opened)
    ELSE Effect(Ok(TRUE), Len(opened), opened)

\* Faulty variant: no os.path.exists check, so sqlite3.connect creates an empty file.
DbConnectNoExistsCheck(owner, connection, conns, exists, db, fault) ==
    IF fault = "connect"
    THEN Effect(Raise("Exception",
                      <<"Database verbinding mislukt: ", "unable to open database file">>),
                connection, conns)
    ELSE DbProbe(Append(conns, [owner |-> owner, open |-> TRUE]),
                 IF exists THEN db ELSE [hasTable |-> FALSE, rows |-> <<>>], fault)

DbConnect(owner, connection, conns, exists, db, fault) ==
    IF ~exists
    THEN Effect(Raise("FileNotFoundError",
                      <<"Database bestand niet gevonden: ", "data/products.db">>),
                connection, conns)
    ELSE IF fault = "connect"
    THEN Effect(Raise("Exception",
                      <<"Database verbinding mislukt: ", "unable to open database file">>),
                connection, conns)
    ELSE DbProbe(Append(conns, [owner |-> owner, open |-> TRUE]), db, fault)

\* DatabaseSource.__init__
DbSourceInit(owner, database_path, conns, exists, db, fault) ==
    IF database_path = ""
    THEN Effect(Raise("ValueError", <<"Database pad mag niet leeg zijn">>), 0, conns)
    ELSE DbConnect(owner, 0, conns, exists, db, fault)

\* `x or ''`
OrEmpty(x) == IF Truthy(x) THEN x ELSE PyStr(<<>>)

\* The except clause of _create_product_from_row.
CreateProductExcept(r) ==
    IF ~r.ok /\ IsInstance(r.exc, {"KeyError", "ValueError", "TypeError"})
    THEN Raise("ValueError", <<"Ongeldige product data in database: ">> \o StrExc(r.exc))
    ELSE r

\* DatabaseSource._create_product_from_row: the arguments are converted in
\* order, then Product is constructed.
\* Product(...) on the converted arguments, or their first exception.
ProductOfArgs(args) ==
    IF ~args.ok THEN args
    ELSE ProductInit(PyInt(args.val[1]), PyStr(args.val[2]), PyStr(args.val[3]),
                     args.val[4], PyInt(args.val[5]), PyStr(args.val[6]))

CreateProductFromRow(row) ==
    CreateProductExcept(
        ProductOfArgs(InOrder(<<ToInt(row.id),
                                Ok(ToStr(row.name)),
                                Ok(ToStr(OrEmpty(row.description))),
                                ToFloat(row.price),
                                ToInt(row.stock),
                                Ok(ToStr(OrEmpty(row.image_path)))>>)))

\* ORDER BY id on integer ids: repeatedly take a row of least id.
RECURSIVE OrderById(_)
\* The row at m first, then the others ordered.
TakeRow(rows, m) ==
    <<rows[m]>>
        \o OrderById([k \in 1..(Len(rows) - 1) |-> IF k < m THEN rows[k] ELSE rows[k + 1]])

\* The first position holding the least id.
LeastId(rows) ==
    CHOOSE i \in 1..Len(rows) :
        /\ \A j \in 1..Len(rows) : rows[i].id.v <= rows[j].id.v
        /\ \A j \in 1..(i - 1) : rows[j].id.v # rows[i].id.v

OrderById(rows) == IF rows = <<>> THEN <<>> ELSE TakeRow(rows, LeastId(rows))

\* Faulty variant: the SELECT without its ORDER BY clause gives storage order.
SelectProductsUnordered(db) == db.rows

\* SELECT id, name, description, price, stock, image_path FROM products ORDER BY id
SelectProducts(db) == OrderById(db.rows)

\* The for loop of get_all_products: a row whose construction raises
\* ValueError is skipped, the others are appended in query order.
\* One iteration: append the product, or skip the row on its ValueError.
DbAppendOrSkip(products, r) == IF r.ok THEN Append(products, r.val) ELSE products

RECURSIVE DbCollect(_, _)
DbCollect(rows, products) ==
    IF rows = <<>> THEN products
    ELSE DbCollect(Tail(rows), DbAppendOrSkip(products, CreateProductFromRow(Head(rows))))

\* The try block of DatabaseSource.get_all_products with its except clause;
\* queryFails: the driver raises sqlite3.Error on the SELECT.
\* `if not products: raise ValueError(...)`, else return products.
DbCheckProducts(products) ==
    IF products = <<>>
    THEN Raise("ValueError", <<"Geen geldige producten gevonden in database">>)
    ELSE Ok(products)

DbQuery(db, queryFails) ==
    IF queryFails
    THEN Raise("Exception", <<"Fout bij ophalen van producten: ", "database disk image is malformed">>)
    ELSE DbCheckProducts(DbCollect(SelectProducts(db), <<>>))

\* DatabaseSource.get_all_products: reconnect when the connection attribute
\* is None, then query.
\* The query on the connection c left by the reconnect, if that succeeded.
DbQueryOn(c, db, queryFails) ==
    IF ~c.res.ok THEN c
    ELSE Effect(DbQuery(db, queryFails), c.connection, c.conns)

\* Faulty variant: no `if not self.connection: self._connect()`, so the
\* cursor() call on None raises AttributeError.
DbGetAllProductsNoReconnect(owner, connection, conns, exists, db, fault, queryFails) ==
    IF connection = 0
    THEN Effect(Raise("AttributeError",
                      <<"'NoneType' object has no attribute 'cursor'">>),
                connection, conns)
    ELSE Effect(DbQuery(db, queryFails), connection, conns)

DbGetAllProducts(owner, connection, conns, exists, db, fault, queryFails) ==
    DbQueryOn(IF connection = 0
              THEN DbConnect(owner, connection, conns, exists, db, fault)
              ELSE Effect(Ok(TRUE), connection, conns),
              db, queryFails)

\* Faulty variant: close without its finally clause keeps the handle when the driver raises.
DbCloseNoFinally(connection, conns, closeFails) ==
    IF connection # 0
    THEN IF closeFails
         THEN Effect(Ok(TRUE), connection, conns)
         ELSE Effect(Ok(TRUE), 0, [conns EXCEPT ![connection].open = FALSE])
    ELSE Effect(Ok(TRUE), connection, conns)

\* DatabaseSource.close.  closeFails: the driver raises sqlite3.Error on
\* close, which leaves the driver's connection as it was.
DbClose(connection, conns, closeFails) ==
    IF connection # 0
    THEN Effect(Ok(TRUE), 0,
                IF closeFails THEN conns
                ELSE [conns EXCEPT ![connection].open = FALSE])
    ELSE Effect(Ok(TRUE), connection, conns)

(***************************************************************************)
(* app.py: the factory and the /api/products handler.                      *)
(***************************************************************************)
DATABASE_PATH == "data/products.db"

CSV_PATH == "data/products.csv"

NoSource == [kind |-> "none", connection |-> 0]

\* The source_type.lower().strip() of create_data_source.
NormalizeSourceType(source_type) == Strip(Lower(source_type))

\* create_data_source: the result is the new source, or the exception of
\* its constructor, or ValueError for an unknown type.
\* The instance a constructor returned (named by its class), or its exception.
Instance(kind, e) ==
    Effect(IF e.res.ok THEN Ok(kind) ELSE e.res, e.connection, e.conns)

\* Faulty variant: an unknown type falls through to the database source.
CreateByTypeElseDatabase(owner, t, conns, csvEx, dbEx, dbFile, fault) ==
    IF t = <<"c", "s", "v">>
    THEN Instance("csv", Effect(CsvSourceInit(CSV_PATH, csvEx), 0, conns))
    ELSE Instance("db", DbSourceInit(owner, DATABASE_PATH, conns, dbEx, dbFile, fault))

\* The if/elif/else of create_data_source on the normalised type t.
CreateByType(owner, t, conns, csvEx, dbEx, dbFile, fault) ==
    IF t = <<"c", "s", "v">>
    THEN Instance("csv", Effect(CsvSourceInit(CSV_PATH, csvEx), 0, conns))
    ELSE IF t = <<"d", "a", "t", "a", "b", "a", "s", "e">>
    THEN Instance("db", DbSourceInit(owner, DATABASE_PATH, conns, dbEx, dbFile, fault))
    ELSE Effect(Raise("ValueError",
                      <<"Ongeldige databron type: '">> \o t
                          \o <<"'. ", "Gebruik 'database' of 'csv'.">>),
                0, conns)

CreateDataSource(owner, source_type, conns, csvEx, dbEx, dbFile, fault) ==
    CreateByType(owner, NormalizeSourceType(source_type), conns, csvEx, dbEx, dbFile, fault)

\* request.args.get('source', 'database')
SourceParam(a) ==
    IF a.present THEN a.v ELSE <<"d", "a", "t", "a", "b", "a", "s", "e">>

\* The files under static/images.
StaticImages == {<<"m", ".", "p", "n", "g">>}

\* Product.get_display_image
GetDisplayImage(p) ==
    IF p.image_path # <<>> /\ p.image_path \in StaticImages
    THEN p.image_path
    ELSE <<"placeholder.png">>

\* Product.to_dict
ToDict(p) ==
    [id |-> p.id, name |-> p.name, description |-> p.description,
     price |-> p.price, stock |-> p.stock, image |-> GetDisplayImage(p)]

NoResponse == [status |-> 0]

\* The success response of get_products.
SuccessResponse(source_type, products) ==
    [status |-> 200,
     body |-> [success |-> TRUE, source |-> source_type, count |-> Len(products),
               products |-> [i \in 1..Len(products) |-> ToDict(products[i])]]]

\* Faulty variant: the last except clause answers with str(e) as the others do.
ErrorResponseWithMessage(exc) ==
    [status |-> IF IsInstance(exc, {"ValueError"}) THEN 400
                ELSE IF IsInstance(exc, {"FileNotFoundError"}) THEN 404
                ELSE 500,
     body |-> [success |-> FALSE, error |-> StrExc(exc)]]

\* The except clauses of get_products, in order.
ErrorResponse(exc) ==
    IF IsInstance(exc, {"ValueError"})
    THEN [status |-> 400, body |-> [success |-> FALSE, error |-> StrExc(exc)]]
    ELSE IF IsInstance(exc, {"FileNotFoundError"})
    THEN [status |-> 404, body |-> [success |-> FALSE, error |-> StrExc(exc)]]
    ELSE [status |-> 500,
          body |-> [success |-> FALSE, error |-> <<"Er is een onverwachte fout opgetreden">>]]

(***************************************************************************)
(* The inputs the model draws: CSV files, databases, source parameters.    *)
(***************************************************************************)
Line(cells) == [oversize |-> FALSE, cells |-> cells]

CsvSampleLines ==
    { Line(<< <<"1">>, <<"a">>, <<>>, <<"1", "0", ".", "0", "0">>, <<"5">>, <<"m", ".", "p", "n", "g">> >>),
      Line(<< <<"2">>, <<" ", "b", " ">>, <<"d">>, <<"2", "0", ".", "0", "0">>, <<"0">>, <<>> >>),
      Line(<< <<"1">>, <<"c">>, <<>>, <<"1", ".", "5">>, <<"3">>, <<>> >>),
      Line(<< <<"3">>, <<"e">>, <<>>, <<"a", "b", "c">>, <<"1">>, <<>> >>),
      Line(<< <<"4">>, <<" ">>, <<>>, <<"1">>, <<"1">>, <<>> >>),
      Line(<< <<"0">>, <<"f">>, <<>>, <<"1">>, <<"1">>, <<>> >>),
      Line(<< <<"5">>, <<"g">>, <<>>, <<"n", "a", "n">>, <<"1">>, <<>> >>),
      Line(<< <<"6">>, <<"h">> >>),
      [oversize |-> TRUE, cells |-> <<>>] }

SeqsUpTo(S, n) == UNION {[1..k -> S] : k \in 0..n}

NoPriceHeader == <<"id", "name", "description", "stock", "image_path">>

EmptyCsvFile == [header |-> <<>>, lines |-> <<>>]

CsvFiles ==
    {EmptyCsvFile}
        \cup {[header |-> h, lines |-> ls] :
                 h \in {RequiredFields, NoPriceHeader},
                 ls \in SeqsUpTo(CsvSampleLines, MaxCsvRows)}

DefaultCsvFile ==
    [header |-> RequiredFields,
     lines |-> << Line(<< <<"1">>, <<"a">>, <<>>, <<"1", "0", ".", "0", "0">>, <<"5">>, <<"m", ".", "p", "n", "g">> >>) >>]

DbRow(id, name, description, price, stock, image_path) ==
    [id |-> id, name |-> name, description |-> description, price |-> price,
     stock |-> stock, image_path |-> image_path]

DbSampleRows ==
    { DbRow(PyInt(1), PyStr(<<"a">>), PyStr(<<>>), PyFloat(1000), PyInt(5), PyStr(<<"m", ".", "p", "n", "g">>)),
      DbRow(PyInt(2), PyStr(<<" ", "b", " ">>), None, PyFloat(2000), PyInt(0), None),
      DbRow(PyInt(3), None, PyStr(<<"d">>), PyFloat(150), PyInt(3), PyStr(<<>>)),
      DbRow(PyInt(4), PyStr(<<"e">>), PyStr(<<>>), None, PyInt(1), PyStr(<<>>)),
      DbRow(PyInt(-1), PyStr(<<"f">>), PyStr(<<>>), PyFloat(100), PyInt(1), PyStr(<<>>)),
      DbRow(PyInt(5), PyStr(<<" ">>), PyStr(<<>>), PyFloat(100), PyInt(1), PyStr(<<>>)),
      DbRow(PyInt(6), PyStr(<<"g">>), PyStr(<<>>), PyFloat(-100), PyInt(1), PyStr(<<>>)) }

DistinctIds(rows) ==
    \A i, j \in 1..Len(rows) : i # j => rows[i].id # rows[j].id

Databases ==
    {[hasTable |-> FALSE, rows |-> <<>>]}
        \cup {[hasTable |-> TRUE, rows |-> rs] :
                 rs \in {t \in SeqsUpTo(DbSampleRows, MaxDbRows) : DistinctIds(t)}}

DefaultDatabase ==
    [hasTable |-> TRUE,
     rows |-> << DbRow(PyInt(1), PyStr(<<"a">>), PyStr(<<>>), PyFloat(1000), PyInt(5), PyStr(<<"m", ".", "p", "n", "g">>)) >>]

Param(v) == [present |-> TRUE, v |-> v]

Absent == [present |-> FALSE, v |-> <<>>]

SourceParams ==
    { Absent,
      Param(<<"d", "a", "t", "a", "b", "a", "s", "e">>),
      Param(<<"D", "a", "t", "a", "b", "a", "s", "e", " ">>),
      Param(<<"c", "s", "v">>),
      Param(<<"C", "S", "V">>),
      Param(<<" ", "c", "s", "v">>),
      Param(<<"x", "m", "l">>),
      Param(<<"X", "M", "L", " ">>),
      Param(<<>>) }

Faults == {"none", "connect", "probe"}

(***************************************************************************)
(* State.                                                                  *)
(***************************************************************************)
VARIABLES
    csvExists,  \* whether data/products.csv exists
    csvFile,    \* its content
    dbExists,   \* whether data/products.db exists
    db,         \* its content
    conns,      \* the driver's connections, [owner, open] each
    pc,         \* per request: where its handler (or direct caller) is
    arg,        \* per request: the source query parameter
    source,     \* per request: the source instance it holds, [kind, connection]
    result,     \* per request: what the last call returned or raised
    response,   \* per request: the HTTP response, once produced
    trace,      \* per request: the calls made so far, in order
    drv         \* per request: how the driver behaved in the last call

vars == <<csvExists, csvFile, dbExists, db, conns, pc, arg, source, result,
          response, trace, drv>>

env == <<csvExists, csvFile, dbExists, db>>

Requests == DOMAIN pc

NoResult == Ok(<<>>)

NoDrv == [fault |-> "none", queryFails |-> FALSE, closeFails |-> FALSE]

\* The backing stores a request for source kind k can meet: the store it
\* does not select is never read and stays at its default.
InitEnv(k) ==
    \/ /\ k = "csv"
       /\ csvExists \in BOOLEAN
       /\ csvFile \in (IF csvExists THEN CsvFiles ELSE {EmptyCsvFile})
       /\ dbExists = TRUE
       /\ db = DefaultDatabase
    \/ /\ k = "db"
       /\ dbExists \in BOOLEAN
       /\ db \in (IF dbExists THEN Databases ELSE {DefaultDatabase})
       /\ csvExists = TRUE
       /\ csvFile = DefaultCsvFile
    \/ /\ k = "other"
       /\ csvExists = TRUE
       /\ csvFile = DefaultCsvFile
       /\ dbExists = TRUE
       /\ db = DefaultDatabase

KindOfType(t) ==
    IF t = <<"c", "s", "v">> THEN "csv"
    ELSE IF t = <<"d", "a", "t", "a", "b", "a", "s", "e">> THEN "db"
    ELSE "other"

\* The class a request with parameter a selects.
KindOf(a) == KindOfType(NormalizeSourceType(SourceParam(a)))

InitRequests(rs, start) ==
    /\ conns = <<>>
    /\ pc = [r \in rs |-> start]
    /\ source = [r \in rs |-> NoSource]
    /\ result = [r \in rs |-> NoResult]
    /\ response = [r \in rs |-> NoResponse]
    /\ trace = [r \in rs |-> <<>>]
    /\ drv = [r \in rs |-> NoDrv]

\* One HTTP request, about to be handled.
Init ==
    /\ arg \in [{1} -> SourceParams]
    /\ InitEnv(KindOf(arg[1]))
    /\ InitRequests({1}, "start")

(***************************************************************************)
(* get_products, step by step.                                             *)
(***************************************************************************)
\* The faults the driver can show when a call may connect.
FaultsIf(connects) == IF connects THEN Faults ELSE {"none"}

\* data_source = create_data_source(source_type)
\* What a construction e leaves: the instance bound for r, or the exception.
Constructed(r, e, bound, failed) ==
    /\ conns' = e.conns
    /\ trace' = [trace EXCEPT ![r] = IF e.res.ok THEN Append(@, "create") ELSE @]
    /\ source' = [source EXCEPT
                     ![r] = IF e.res.ok
                            THEN [kind |-> e.res.val, connection |-> e.connection]
                            ELSE @]
    /\ result' = [result EXCEPT ![r] = IF e.res.ok THEN @ ELSE e.res]
    /\ pc' = [pc EXCEPT ![r] = IF e.res.ok THEN bound ELSE failed]

HandleCreate(r) ==
    /\ pc[r] = "start"
    /\ \E fault \in FaultsIf(KindOf(arg[r]) = "db" /\ dbExists) :
         /\ Constructed(r, CreateDataSource(r, SourceParam(arg[r]), conns,
                                            csvExists, dbExists, db, fault),
                        "created", "except")
         /\ drv' = [drv EXCEPT ![r].fault = fault]
    /\ UNCHANGED <<env, arg, response>>

\* get_all_products of either class.
GetAllProducts(owner, src, cs, fault, queryFails) ==
    IF src.kind = "csv"
    THEN Effect(CsvGetAllProducts(csvExists, csvFile), src.connection, cs)
    ELSE DbGetAllProducts(owner, src.connection, cs, dbExists, db, fault, queryFails)

\* close of either class.
Close(src, cs, closeFails) ==
    IF src.kind = "csv"
    THEN Effect(Ok(TRUE), CsvClose(src).connection, cs)
    ELSE DbClose(src.connection, cs, closeFails)

\* Faulty variant: one module-level instance per class, shared by the requests.
CalledOnSharedSource(r, name, e) ==
    /\ conns' = e.conns
    /\ source' = [q \in DOMAIN source |->
                     IF source[q].kind = source[r].kind
                     THEN [source[q] EXCEPT !.connection = e.connection]
                     ELSE source[q]]
    /\ trace' = [trace EXCEPT ![r] = Append(@, name)]

\* What a call e on source[r] leaves behind, but for its result.
Called(r, name, e) ==
    /\ conns' = e.conns
    /\ source' = [source EXCEPT ![r].connection = e.connection]
    /\ trace' = [trace EXCEPT ![r] = Append(@, name)]

\* close() returns nothing: only an exception of it would replace result[r].
Closed(r, e) ==
    /\ Called(r, "close", e)
    /\ result' = [result EXCEPT ![r] = IF e.res.ok THEN @ ELSE e.res]

\* The call of get_all_products on source[r], with the driver's behaviour drawn.
CallGetAll(r) ==
    \E fault \in FaultsIf(source[r].kind = "db" /\ source[r].connection = 0 /\ dbExists),
       queryFails \in (IF source[r].kind = "db" THEN BOOLEAN ELSE {FALSE}) :
         /\ Called(r, "get_all", GetAllProducts(r, source[r], conns, fault, queryFails))
         /\ result' = [result EXCEPT
                          ![r] = GetAllProducts(r, source[r], conns, fault, queryFails).res]
         /\ drv' = [drv EXCEPT ![r].fault = fault, ![r].queryFails = queryFails]

\* The call of close on source[r].
CallClose(r) ==
    \E closeFails \in (IF source[r].connection # 0 THEN BOOLEAN ELSE {FALSE}) :
         /\ Closed(r, Close(source[r], conns, closeFails))
         /\ drv' = [drv EXCEPT ![r].closeFails = closeFails]

\* The inner try: products = data_source.get_all_products() and, when it
\* returns, the to_dict/jsonify of the return statement (no state changes).
HandleGetAll(r) ==
    /\ pc[r] = "created"
    /\ CallGetAll(r)
    /\ pc' = [pc EXCEPT ![r] = "finally"]
    /\ UNCHANGED <<env, arg, response>>

\* Faulty variant: close() after the try body instead of in a finally clause.
HandleCloseOnSuccessOnly(r) ==
    /\ pc[r] = "finally"
    /\ IF result[r].ok
       THEN /\ CallClose(r)
            /\ pc' = [pc EXCEPT ![r] = "return"]
       ELSE /\ pc' = [pc EXCEPT ![r] = "except"]
            /\ UNCHANGED <<conns, source, result, trace, drv>>
    /\ UNCHANGED <<env, arg, response>>

\* finally: data_source.close()
HandleClose(r) ==
    /\ pc[r] = "finally"
    /\ CallClose(r)
    /\ pc' = [pc EXCEPT ![r] = IF result'[r].ok THEN "return" ELSE "except"]
    /\ UNCHANGED <<env, arg, response>>

\* The handler returns: the success response, or the one of the except
\* clause that matches the exception.
HandleRespond(r) ==
    /\ pc[r] \in {"return", "except"}
    /\ response' = [response EXCEPT
                       ![r] = IF pc[r] = "return"
                              THEN SuccessResponse(SourceParam(arg[r]), result[r].val)
                              ELSE ErrorResponse(result[r].exc)]
    /\ pc' = [pc EXCEPT ![r] = "done"]
    /\ UNCHANGED <<env, conns, arg, source, result, trace, drv>>

Next ==
    \E r \in {1} :
        \/ HandleCreate(r)
        \/ HandleGetAll(r)
        \/ HandleClose(r)
        \/ HandleRespond(r)

Spec == Init /\ [][Next]_vars

(***************************************************************************)
(* The source classes used directly: a caller constructs one source and    *)
(* calls get_all_products and close on it in any order, MaxCalls times.    *)
(***************************************************************************)
SourceInit ==
    /\ arg \in [{1} -> {Param(<<"c", "s", "v">>),
                         Param(<<"d", "a", "t", "a", "b", "a", "s", "e">>)}]
    /\ InitEnv(KindOf(arg[1]))
    /\ InitRequests({1}, "new")

\* CSVSource(CSV_PATH) or DatabaseSource(DATABASE_PATH)
Construct(r) ==
    /\ pc[r] = "new"
    /\ \E fault \in FaultsIf(KindOf(arg[r]) = "db" /\ dbExists) :
         /\ Constructed(r,
                        IF KindOf(arg[r]) = "csv"
                        THEN Instance("csv", Effect(CsvSourceInit(CSV_PATH, csvExists), 0, conns))
                        ELSE Instance("db", DbSourceInit(r, DATABASE_PATH, conns,
                                                         dbExists, db, fault)),
                        "held", "failed")
         /\ drv' = [drv EXCEPT ![r].fault = fault]
    /\ UNCHANGED <<env, arg, response>>

DirectGetAll(r) ==
    /\ pc[r] = "held"
    /\ Len(trace[r]) <= MaxCalls
    /\ CallGetAll(r)
    /\ UNCHANGED <<env, arg, pc, response>>

DirectClose(r) ==
    /\ pc[r] = "held"
    /\ Len(trace[r]) <= MaxCalls
    /\ CallClose(r)
    /\ UNCHANGED <<env, arg, pc, response>>

SourceNext ==
    \E r \in {1} :
        \/ Construct(r)
        \/ DirectGetAll(r)
        \/ DirectClose(r)

SourceSpec == SourceInit /\ [][SourceNext]_vars

(***************************************************************************)
(* A DatabaseSource kept and used again after close(), while the database  *)
(* file may be removed under it.                                           *)
(***************************************************************************)
ReuseInit ==
    /\ arg \in [{1} -> {Param(<<"d", "a", "t", "a", "b", "a", "s", "e">>)}]
    /\ InitEnv("db")
    /\ InitRequests({1}, "new")

\* data/products.db is deleted; connections already open stay as they are.
RemoveDatabase ==
    /\ dbExists
    /\ dbExists' = FALSE
    /\ UNCHANGED <<csvExists, csvFile, db, conns, pc, arg, source, result,
                   response, trace, drv>>

ReuseNext ==
    \/ \E r \in {1} :
          \/ Construct(r)
          \/ DirectGetAll(r)
          \/ DirectClose(r)
    \/ RemoveDatabase

ReuseSpec == ReuseInit /\ [][ReuseNext]_vars

(***************************************************************************)
(* Two requests handled concurrently (Flask serves each request in its own *)
(* thread): the steps of the two handlers interleave over unchanged files. *)
(***************************************************************************)
ConcRequests == {1, 2}

ConcParams == {Absent, Param(<<"c", "s", "v">>), Param(<<"x", "m", "l">>)}

\* The shipped file, a headered file without rows, and one with a bad row.
ConcCsvFiles ==
    { DefaultCsvFile,
      [header |-> RequiredFields, lines |-> <<>>],
      [header |-> RequiredFields,
       lines |-> << Line(<< <<"3">>, <<"e">>, <<>>, <<"a", "b", "c">>, <<"1">>, <<>> >>) >>] }

\* The shipped database, one without the products table, an empty table.
ConcDatabases ==
    { DefaultDatabase,
      [hasTable |-> FALSE, rows |-> <<>>],
      [hasTable |-> TRUE, rows |-> <<>>] }

ConcInit ==
    /\ arg \in [ConcRequests -> ConcParams]
    /\ csvExists \in BOOLEAN
    /\ csvFile \in (IF csvExists THEN ConcCsvFiles ELSE {EmptyCsvFile})
    /\ dbExists \in BOOLEAN
    /\ db \in (IF dbExists THEN ConcDatabases ELSE {DefaultDatabase})
    /\ InitRequests(ConcRequests, "start")

ConcNext ==
    \E r \in {1, 2} :
        \/ HandleCreate(r)
        \/ HandleGetAll(r)
        \/ HandleClose(r)
        \/ HandleRespond(r)

ConcSpec == ConcInit /\ [][ConcNext]_vars

(***************************************************************************)
(* get_products run alone, from its first line to its response, as a       *)
(* function of the parameter, the files and the driver's behaviour d.      *)
(***************************************************************************)
\* The return statement, or the except clause for what get_all_products or
\* close raised.
AloneRespond(a, got, closed) ==
    IF ~closed.res.ok THEN ErrorResponse(closed.res.exc)
    ELSE IF got.res.ok THEN SuccessResponse(SourceParam(a), got.res.val)
    ELSE ErrorResponse(got.res.exc)

\* finally: data_source.close()
AloneClose(a, d, kind, got) ==
    AloneRespond(a, got,
                 Close([kind |-> kind, connection |-> got.connection], got.conns,
                       d.closeFails /\ got.connection # 0))

\* products = data_source.get_all_products()
AloneGetAll(a, d, e) ==
    IF ~e.res.ok THEN ErrorResponse(e.res.exc)
    ELSE AloneClose(a, d, e.res.val,
                    GetAllProducts(1, [kind |-> e.res.val, connection |-> e.connection],
                                   e.conns, "none", d.queryFails))

AloneResponse(a, d) ==
    AloneGetAll(a, d, CreateDataSource(1, SourceParam(a), <<>>, csvExists, dbExists,
                                       db, d.fault))

(***************************************************************************)
(* Properties.                                                             *)
(***************************************************************************)
Did(r, name) == \E i \in 1..Len(trace[r]) : trace[r][i] = name

LastCall(r) == IF trace[r] = <<>> THEN "none" ELSE trace[r][Len(trace[r])]

\* get_all_products has been called on r's source and its last call returned.
Returned(r) == Did(r, "get_all") /\ result[r].ok

\* The data rows of the CSV file that _parse_product_row rejects.
CsvBadRows ==
    {i \in 1..Len(csvFile.lines) :
        /\ ~csvFile.lines[i].oversize
        /\ ~ParseProductRowBody(DictRow(csvFile.header, csvFile.lines[i].cells), i + 1).ok}

Ids(products) == [i \in 1..Len(products) |-> products[i].id]

Ascending(ids) == \A i, j \in 1..Len(ids) : i < j => ids[i] <= ids[j]

\* The statuses the failure kinds of the specification allow a finished
\* request: one status, but for a CSV file without a header row or with an
\* unreadable line, which the claim does not classify.
ExpectedStatus(r) ==
    CASE KindOf(arg[r]) = "other" -> {400}
      [] KindOf(arg[r]) = "csv" ->
            IF ~csvExists THEN {404}
            ELSE IF csvFile.header = <<>>
                    \/ \E i \in 1..Len(csvFile.lines) : csvFile.lines[i].oversize
            THEN {400, 500}
            ELSE IF CsvBadRows # {} \/ csvFile.lines = <<>> THEN {400}
            ELSE {200}
      [] KindOf(arg[r]) = "db" ->
            IF ~dbExists THEN {404}
            ELSE IF drv[r].fault # "none" THEN {500}
            ELSE IF ~db.hasTable THEN {400}
            ELSE IF drv[r].queryFails THEN {500}
            ELSE IF \A i \in 1..Len(db.rows) : ~CreateProductFromRow(db.rows[i]).ok THEN {400}
            ELSE {200}

\* C1: the failure kind decides the HTTP status of GET /api/products, for
\* either source: 400 for an invalid source or a validation failure, 404 for
\* a missing file or database, 500 for anything else, each failure with the
\* body {success: false, error: message}.
C1_StatusByFailureKind ==
    \A r \in Requests :
        pc[r] = "done" =>
            /\ response[r].status \in ExpectedStatus(r)
            /\ response[r].status # 200 =>
                   /\ DOMAIN response[r].body = {"success", "error"}
                   /\ response[r].body.success = FALSE

\* C2: a CSV file with a malformed data row makes get_all_products fail, and
\* the error that leaves it is a ValueError.
C2_MalformedRowIsValidation ==
    \A r \in Requests :
        ( /\ source[r].kind = "csv"
          /\ LastCall(r) = "get_all"
          /\ csvExists
          /\ csvFile.header # <<>>
          /\ CsvBadRows # {} )
        => /\ ~result[r].ok
           /\ result[r].exc.type = "ValueError"

\* C3: with a null-name row and another valid row in the products table,
\* DatabaseSource.get_all_products returns no Record built from the
\* null-name row.
C3_NullNameRowSkipped ==
    \A r \in Requests :
        (source[r].kind = "db" /\ Returned(r)) =>
            \A i \in 1..Len(db.rows) :
                ( /\ db.rows[i].name = None
                  /\ \E j \in 1..Len(db.rows) :
                         j # i /\ db.rows[j].name # None
                             /\ CreateProductFromRow(db.rows[j]).ok )
                => \A k \in 1..Len(result[r].val) : result[r].val[k].id # db.rows[i].id.v

\* C5: get_all_products never returns an empty sequence; with no valid row
\* (a headered CSV file without data rows, a products table whose rows are
\* all skipped) it fails with a ValueError.
C5_NoValidRecordsIsValidation ==
    \A r \in Requests :
        LastCall(r) = "get_all" =>
            /\ result[r].ok => result[r].val # <<>>
            /\ ( /\ source[r].kind = "csv"
                 /\ csvExists
                 /\ csvFile.header # <<>>
                 /\ csvFile.lines = <<>> )
               => (~result[r].ok /\ result[r].exc.type = "ValueError")
            /\ ( /\ source[r].kind = "db"
                 /\ drv[r].fault = "none"
                 /\ ~drv[r].queryFails
                 /\ source[r].connection # 0
                 /\ \A i \in 1..Len(db.rows) : ~CreateProductFromRow(db.rows[i]).ok )
               => (~result[r].ok /\ result[r].exc.type = "ValueError")

\* C4 as claimed: every returned sequence, of either source, is ascending
\* by id whatever the order of the rows in the file or table.
C4_AllAscending ==
    \A r \in Requests : Returned(r) => Ascending(Ids(result[r].val))

\* The ids of the CSV file's data rows, in file order.
CsvFileIds ==
    [i \in 1..Len(csvFile.lines) |->
        ToInt(DictRow(csvFile.header, csvFile.lines[i].cells).id).val]

\* C4 as amended: a sequence returned by DatabaseSource is ascending by id
\* whatever the storage order of the table; one returned by CSVSource keeps
\* the file's row order.
C4_DbAscendingCsvFileOrder ==
    \A r \in Requests :
        Returned(r) =>
            /\ source[r].kind = "db" => Ascending(Ids(result[r].val))
            /\ source[r].kind = "csv" => Ids(result[r].val) = CsvFileIds

\* C4's case: a table stored out of id order, two or more Records returned.
C4_UnorderedTableReturned ==
    \E r \in Requests :
        /\ source[r].kind = "db"
        /\ Returned(r)
        /\ Len(result[r].val) >= 2
        /\ ~Ascending([i \in 1..Len(db.rows) |-> db.rows[i].id.v])

FullTrace == <<"create", "get_all", "close">>

\* C6: a handling that constructed a source creates one instance, calls
\* get_all_products on it once and close() once after it, before the
\* response is produced, whatever get_all_products did.
C6_OneCallThenClose ==
    \A r \in Requests :
        /\ source[r].kind # "none" =>
               \E n \in 1..3 : trace[r] = SubSeq(FullTrace, 1, n)
        /\ source[r].kind = "none" => trace[r] = <<>>
        /\ response[r] # NoResponse => pc[r] = "done"
        /\ (pc[r] = "done" /\ source[r].kind # "none") =>
               /\ trace[r] = FullTrace
               /\ source[r].connection = 0
        /\ Cardinality({c \in 1..Len(conns) : conns[c].owner = r}) <= 1

\* C6's case: the response of a request whose get_all_products failed with
\* the Unexpected kind, its source closed.
C6_ClosedAfterUnexpected ==
    \E r \in Requests :
        /\ pc[r] = "done"
        /\ trace[r] = FullTrace
        /\ ~result[r].ok
        /\ result[r].exc.type = "Exception"
        /\ response[r].status = 500

\* C7: close() is idempotent: it raises nothing, leaves the handle None
\* (also when the driver raises on close), closes an open connection the
\* driver lets it close, and changes nothing on a DatabaseSource whose handle
\* is None or on a CSVSource.
C7_CloseIdempotent ==
    [][\A r \in Requests :
          trace'[r] = Append(trace[r], "close") =>
              /\ result'[r] = result[r]
              /\ source'[r].connection = 0
              /\ source[r].connection = 0 => (source' = source /\ conns' = conns)
              /\ (source[r].connection # 0 /\ ~drv'[r].closeFails) =>
                     ~conns'[source[r].connection].open]_vars

\* C7's case: a DatabaseSource closed twice, the driver having raised on the
\* first close.
C7_ClosedTwice ==
    \E r \in Requests :
        /\ source[r] = [kind |-> "db", connection |-> 0]
        /\ trace[r] = <<"create", "close", "close">>
        /\ conns[1].open

Infix(sub, seq) ==
    \E i \in 0..(Len(seq) - Len(sub)) : SubSeq(seq, i + 1, i + Len(sub)) = sub

ValidTypes == {<<"c", "s", "v">>, <<"d", "a", "t", "a", "b", "a", "s", "e">>}

Rejected(r, named) ==
    /\ response[r].status = 400
    /\ Infix(named, response[r].body.error)
    /\ trace[r] = <<>>
    /\ source[r] = NoSource
    /\ conns = <<>>

DefaultsToDatabase(r) ==
    ~arg[r].present =>
        /\ source[r].kind \in {"db", "none"}
        /\ response[r].status = 200 =>
               response[r].body.source = <<"d", "a", "t", "a", "b", "a", "s", "e">>

\* C8 as claimed: source defaults to 'database'; any value other than
\* 'database' or 'csv' gets a 400 whose message names that value, and no
\* source is constructed or read.
C8_AnyOtherValueRejected ==
    \A r \in Requests :
        pc[r] = "done" =>
            /\ DefaultsToDatabase(r)
            /\ (arg[r].present /\ arg[r].v \notin ValidTypes) => Rejected(r, arg[r].v)

\* C8 as amended: the value is lower-cased and trimmed first; a value whose
\* normalised form is neither 'database' nor 'csv' gets a 400 whose message
\* names the normalised value, and no source is constructed or read.
C8_OtherNormalizedValueRejected ==
    \A r \in Requests :
        pc[r] = "done" =>
            /\ DefaultsToDatabase(r)
            /\ (arg[r].present /\ Strip(Lower(arg[r].v)) \notin ValidTypes) =>
                   Rejected(r, Strip(Lower(arg[r].v)))

\* C8's case: source=XML (with a trailing blank) answered 400.
C8_UnknownTypeRejected ==
    \E r \in Requests :
        /\ pc[r] = "done"
        /\ arg[r] = Param(<<"X", "M", "L", " ">>)
        /\ response[r].status = 400

\* C9: no sequence returned by get_all_products holds two Records with the
\* same id.
C9_IdsUnique ==
    \A r \in Requests :
        Returned(r) =>
            \A i, j \in 1..Len(result[r].val) :
                i # j => result[r].val[i].id # result[r].val[j].id

\* C10: constructing a DatabaseSource fails with FileNotFoundError, before
\* any connection is opened, when the path does not exist; with a plain
\* Exception when the driver raises while opening or probing; with a
\* ValueError pointing to init_database.py when there is no products table;
\* and succeeds, the connection open, otherwise.
C10_ConstructionClassified ==
    \A r \in Requests :
        ( /\ KindOf(arg[r]) = "db"
          /\ pc[r] = "failed" \/ (pc[r] = "held" /\ trace[r] = <<"create">>) )
        => IF ~dbExists
           THEN pc[r] = "failed" /\ result[r].exc.type = "FileNotFoundError" /\ conns = <<>>
           ELSE IF drv[r].fault # "none"
           THEN /\ pc[r] = "failed"
                /\ result[r].exc.type = "Exception"
                /\ Infix(<<"Database verbinding mislukt: ">>, result[r].exc.msg)
           ELSE IF ~db.hasTable
           THEN /\ pc[r] = "failed"
                /\ result[r].exc.type = "ValueError"
                /\ Infix(<<"Voer 'python init_database.py' uit.">>, result[r].exc.msg)
           ELSE /\ pc[r] = "held"
                /\ source[r].connection # 0
                /\ conns[source[r].connection].open

\* C10's case: a database file without a products table, rejected.
C10_MissingTableRejected ==
    \E r \in Requests :
        /\ pc[r] = "failed"
        /\ dbExists
        /\ ~db.hasTable
        /\ drv[r].fault = "none"
        /\ result[r].exc.type = "ValueError"

\* The Record invariants of Product, read on a returned Record.
RecordInvariants(p) ==
    /\ p.id > 0
    /\ p.name # <<>>
    /\ p.name = Strip(p.name)
    /\ ~p.price.nan /\ p.price.c >= 0
    /\ p.stock >= 0

\* C11: every Record that get_all_products returns, from either source, has
\* id > 0, a non-empty name stored trimmed, price >= 0 and stock >= 0.
C11_ReturnedRecordsValid ==
    \A r \in Requests :
        Returned(r) =>
            \A k \in 1..Len(result[r].val) : RecordInvariants(result[r].val[k])

\* C12: concurrently handled requests share no state.  Each request's handle
\* is a connection of its own; a step of one request (its close() included)
\* leaves the other's source, handle, result and connections as they were;
\* and each response is the one the request produces when run alone.
C12_RequestsIndependent ==
    /\ [](\A r \in Requests :
            /\ source[r].connection # 0 => conns[source[r].connection].owner = r
            /\ pc[r] = "done" => response[r] = AloneResponse(arg[r], drv[r]))
    /\ [][\A r, q \in Requests :
             (q # r /\ pc'[r] # pc[r]) =>
                 /\ source'[q] = source[q]
                 /\ result'[q] = result[q]
                 /\ response'[q] = response[q]
                 /\ trace'[q] = trace[q]
                 /\ \A c \in 1..Len(conns) :
                        conns[c].owner = q => conns'[c] = conns[c]]_vars

\* C12's case: one request has closed its connection and answered while the
\* other still holds its own connection open.
C12_ClosedBesideOpen ==
    \E r, q \in Requests :
        /\ q # r
        /\ pc[r] = "done"
        /\ response[r].status = 200
        /\ source[r].kind = "db"
        /\ source[q].kind = "db"
        /\ pc[q] \in {"created", "finally"}
        /\ source[q].connection # 0
        /\ conns[source[q].connection].open
        /\ \E c \in 1..Len(conns) : conns[c].owner = r /\ ~conns[c].open

GenericError == <<"Er is een onverwachte fout opgetreden">>

\* C13: a failure of the Unexpected kind is answered 500, and every 500
\* response carries the same fixed text, not the text of the exception;
\* 400 and 404 responses carry the message of their exception.
C13_UnexpectedMessageNotLeaked ==
    \A r \in Requests :
        (pc[r] = "done" /\ ~result[r].ok) =>
            /\ result[r].exc.type \notin {"ValueError", "FileNotFoundError"}
                   => response[r].status = 500
            /\ response[r].status = 500 =>
                   /\ response[r].body = [success |-> FALSE, error |-> GenericError]
                   /\ ~Infix(StrExc(result[r].exc), response[r].body.error)
            /\ response[r].status \in {400, 404} =>
                   response[r].body = [success |-> FALSE, error |-> StrExc(result[r].exc)]

\* C13's case: a driver error while connecting, answered 500.
C13_DriverErrorAnswered ==
    \E r \in Requests :
        /\ pc[r] = "done"
        /\ response[r].status = 500
        /\ ~result[r].ok
        /\ Infix(<<"Database verbinding mislukt: ">>, result[r].exc.msg)

\* C14: get_all_products on a DatabaseSource whose handle is None runs
\* _connect again: without the file it fails with FileNotFoundError and
\* opens nothing; otherwise, the driver willing, it opens a connection of
\* its own that stays the handle, and returns what the call before the
\* close returned.  A call with an open handle keeps that handle.
C14_ReusableAfterClose ==
    [][\A r \in Requests :
          (source[r].kind = "db" /\ trace'[r] = Append(trace[r], "get_all")) =>
              /\ source[r].connection # 0 =>
                     /\ source'[r] = source[r]
                     /\ conns' = conns
              /\ (source[r].connection = 0 /\ ~dbExists) =>
                     /\ ~result'[r].ok
                     /\ result'[r].exc.type = "FileNotFoundError"
                     /\ source'[r].connection = 0
                     /\ conns' = conns
              /\ (source[r].connection = 0 /\ dbExists /\ drv'[r].fault = "none") =>
                     /\ conns' = Append(conns, [owner |-> r, open |-> TRUE])
                     /\ source'[r].connection = Len(conns')
                     /\ (LastCall(r) = "close" /\ Returned(r) /\ ~drv'[r].queryFails) =>
                            result'[r] = result[r]]_vars

\* C14's case: products returned, the source closed, the same products
\* returned again over a second connection.
C14_ReadAgainAfterClose ==
    \E r \in Requests :
        /\ trace[r] = <<"create", "get_all", "close", "get_all">>
        /\ result[r].ok
        /\ Len(conns) = 2
        /\ source[r].connection = 2
        /\ conns[2].open

\* C15: once the response of a request is produced, no connection opened
\* while handling it is still open, on every path, a construction that
\* fails after sqlite3.connect included; __del__, which runs when the
\* instance is collected, is not counted on.
C15_NoConnectionLeftOpen ==
    \A r \in Requests :
        pc[r] = "done" =>
            \A c \in 1..Len(conns) : conns[c].owner = r => ~conns[c].open

====
